---------------------------- MODULE Spec2Model ----------------------------
(***************************************************************************)
(* Port & Logistics Disruption Forecaster.                                 *)
(*                                                                         *)
(*   src/main.py           forecast_disruption, the query endpoint         *)
(*   src/daily_refresh.py  daily_refresh, fetch_gdelt_yesterday,           *)
(*                         parse_marinetraffic_rss: the ingestion job      *)
(*                                                                         *)
(* Numbers.  Risk contributions and the unrounded score are kept in        *)
(* hundredths (25.0 is 2500), disruption_risk_score = round(score, 1) in   *)
(* tenths (60.0 is 600), confidence in hundredths (0.85 is 85).            *)
(* Optional values are sequences of length at most one: None is << >>.     *)
(* A dict is a function on its keys; text is a sequence of characters.     *)
(***************************************************************************)
EXTENDS Integers, Sequences, FiniteSets

VARIABLES
    \* ---- src/main.py: one request to forecast_disruption
    api_key,          \* settings.API_KEY, None when not configured
    x_api_key,        \* the X-API-Key header, None when the header is absent
    ports,            \* query.ports
    fpc,              \* position in the handler
    idx,              \* 1-based position of the for loop in query.ports
    congestion,       \* the dict get_port_congestion(port) returned
    gdelt_signals,    \* the dict get_gdelt_signals(port, ...) returned
    results,          \* the list of ForecastResult built so far
    queried,          \* the source calls made so far: source, port, position of the port
    status,           \* "pending", or the HTTP status of the finished request
    raised,           \* the exception that ended the request, "" when none
    \* ---- src/daily_refresh.py: one run of daily_refresh
    job_pc,           \* position in daily_refresh
    gdelt_records,    \* what fetch_gdelt_yesterday returned
    feed_idx,         \* 1-based position of the for loop in feeds
    fetched,          \* what parse_rss gave for each feed visited so far
    emitted,          \* the signals each visited feed appended
    signals,          \* the list parse_marinetraffic_rss builds
    store,            \* rows of port_disruption_signals inserted by this run
    log,              \* the logging calls made so far
    job_raised        \* the exception that left daily_refresh, "" when none

fvars == <<api_key, x_api_key, ports, fpc, idx, congestion, gdelt_signals,
           results, queried, status, raised>>

jvars == <<job_pc, gdelt_records, feed_idx, fetched, emitted, signals, store,
           log, job_raised>>

vars == <<fvars, jvars>>

None == << >>
Some(v) == <<v>>

(***************************************************************************)
(* Bounds and input sets                                                   *)
(***************************************************************************)
MaxPorts == 2

PortNames == {"Shanghai", "Rotterdam"}

\* the configured key, and the header values a client may send
ApiKeys == {None, Some("k1")}
HeaderKeys == {None, Some("k1"), Some("wrong")}

RECURSIVE SeqsUpTo(_, _)
SeqsUpTo(S, n) ==
    IF n = 0 THEN {<< >>}
    ELSE LET shorter == SeqsUpTo(S, n - 1)
         IN  shorter \cup {Append(s, x) : s \in {t \in shorter : Len(t) = n - 1}, x \in S}

\* What the congestion source may answer for a port: a dict that may lack
\* "risk" and "vessels_waiting" (a source that failed or has nothing to say
\* answers with no risk).
CongestionReplies ==
    { << >>,
      [risk |-> 0],
      [risk |-> 1504, vessels_waiting |-> 3],
      [risk |-> 2000, vessels_waiting |-> 4],
      [risk |-> 2004, vessels_waiting |-> 4],
      [risk |-> 2496, vessels_waiting |-> 9],
      [risk |-> 2500, vessels_waiting |-> 12],
      [risk |-> 3004] }

\* What the event source may answer for a port.
GdeltReplies ==
    { << >>,
      [risk |-> 0],
      [risk |-> 3500],
      [risk |-> 3504] }

(***************************************************************************)
(* src/main.py                                                             *)
(***************************************************************************)
\* dict.get(key, default)
Get(d, key, default) == IF key \in DOMAIN d THEN d[key] ELSE default

\* round(score, 1): hundredths to tenths, to the nearest tenth.  A tie
\* (hundredths digit 5) goes to the even tenth, which is what round() gives
\* when the float is exactly the tie; none of the inputs above is a tie.
Round1(s) ==
    LET q == s \div 10
        r == s % 10
    IN  IF r < 5 THEN q
        ELSE IF r > 5 THEN q + 1
        ELSE IF q % 2 = 0 THEN q ELSE q + 1

\* line 49: score = congestion.get("risk", 0) + gdelt_signals.get("risk", 0)
Score(c, g) == Get(c, "risk", 0) + Get(g, "risk", 0)

\* line 50
Level(score) ==
    IF score > 60 * 100 THEN "High"
    ELSE IF score > 30 * 100 THEN "Medium"
    ELSE "Low"

\* line 57: int(score / 5) if score > 20 else None
PredictedDelayDays(score) ==
    IF score > 20 * 100 THEN Some(score \div (5 * 100)) ELSE None

\* line 63 with the threshold of line 50 in its place
RecommendationsAtHighThreshold(score) ==
    IF score > 60 * 100
    THEN <<"Reroute via alternative port", "Increase buffer stock">>
    ELSE <<"Monitor">>

\* line 63
Recommendations(score) ==
    IF score > 50 * 100
    THEN <<"Reroute via alternative port", "Increase buffer stock">>
    ELSE <<"Monitor">>

\* lines 59-62: the list holds the MarineTraffic signal and nothing else
ContributingSignals(c, g) ==
    << [source |-> "MarineTraffic",
        type   |-> "Congestion",
        value  |-> <<Get(c, "vessels_waiting", 0), " vessels">>,
        impact |-> Get(c, "risk", 0)] >>

\* lines 52-64
ForecastResult(port, c, g) ==
    LET score == Score(c, g)
    IN  [port                  |-> port,
         country               |-> "Unknown",
         disruption_risk_score |-> Round1(score),
         risk_level            |-> Level(score),
         predicted_delay_days  |-> PredictedDelayDays(score),
         confidence            |-> 85,
         contributing_signals  |-> ContributingSignals(c, g),
         recommendations       |-> Recommendations(score)]

\* line 37: the request is let through when this is false
KeyMismatch(header, configured) == header # configured

\* no run of daily_refresh is in progress
IdleJob ==
    /\ job_pc = "idle"
    /\ gdelt_records = << >>
    /\ feed_idx = 1
    /\ fetched = << >>
    /\ emitted = << >>
    /\ signals = << >>
    /\ store = << >>
    /\ log = << >>
    /\ job_raised = ""

InitForecast ==
    /\ IdleJob
    /\ api_key \in ApiKeys
    /\ x_api_key \in HeaderKeys
    /\ ports \in SeqsUpTo(PortNames, MaxPorts)
    /\ fpc = "start"
    /\ idx = 1
    /\ congestion = << >>
    /\ gdelt_signals = << >>
    /\ results = << >>
    /\ queried = << >>
    /\ status = "pending"
    /\ raised = ""

\* lines 37-38
Reject ==
    /\ fpc = "start"
    /\ KeyMismatch(x_api_key, api_key)
    /\ fpc' = "done"
    /\ status' = "401"
    /\ raised' = "HTTPException"
    /\ UNCHANGED <<api_key, x_api_key, ports, idx, congestion, gdelt_signals,
                   results, queried>>

\* lines 37, 40
Authorize ==
    /\ fpc = "start"
    /\ ~KeyMismatch(x_api_key, api_key)
    /\ fpc' = "loop"
    /\ results' = << >>
    /\ UNCHANGED <<api_key, x_api_key, ports, idx, congestion, gdelt_signals,
                   queried, status, raised>>

\* lines 41, 43: get_port_congestion is imported from app.sources.marinetraffic
\* (line 6); what it answers is taken from its contract
QueryCongestion ==
    /\ fpc = "loop"
    /\ idx <= Len(ports)
    /\ \E reply \in CongestionReplies : congestion' = reply
    /\ queried' = Append(queried, [source |-> "MarineTraffic", port |-> ports[idx], pos |-> idx])
    /\ fpc' = "gdelt"
    /\ UNCHANGED <<api_key, x_api_key, ports, idx, gdelt_signals, results,
                   status, raised>>

\* line 44: get_gdelt_signals is one of the other sources of line 7, defined
\* in neither source file; what it answers is taken from its contract
QueryGdelt ==
    /\ fpc = "gdelt"
    /\ \E reply \in GdeltReplies : gdelt_signals' = reply
    /\ queried' = Append(queried, [source |-> "GDELT", port |-> ports[idx], pos |-> idx])
    /\ fpc' = "score"
    /\ UNCHANGED <<api_key, x_api_key, ports, idx, congestion, results,
                   status, raised>>

\* lines 49-64
AppendResult ==
    /\ fpc = "score"
    /\ results' = Append(results, ForecastResult(ports[idx], congestion, gdelt_signals))
    /\ idx' = idx + 1
    /\ fpc' = "loop"
    /\ UNCHANGED <<api_key, x_api_key, ports, congestion, gdelt_signals,
                   queried, status, raised>>

\* line 66: the name datetime is bound nowhere in main.py (lines 1-6 import
\* FastAPI, pydantic, typing, settings, get_client and get_port_congestion),
\* so building as_of raises NameError and the request ends as a server error.
Return ==
    /\ fpc = "loop"
    /\ idx > Len(ports)
    /\ fpc' = "done"
    /\ status' = "500"
    /\ raised' = "NameError"
    /\ UNCHANGED <<api_key, x_api_key, ports, idx, congestion, gdelt_signals,
                   results, queried>>

NextForecast ==
    \/ Reject /\ UNCHANGED jvars
    \/ Authorize /\ UNCHANGED jvars
    \/ QueryCongestion /\ UNCHANGED jvars
    \/ QueryGdelt /\ UNCHANGED jvars
    \/ AppendResult /\ UNCHANGED jvars
    \/ Return /\ UNCHANGED jvars

SpecForecast == InitForecast /\ [][NextForecast]_vars

(***************************************************************************)
(* Text                                                                    *)
(***************************************************************************)
UpperChars == <<"A","B","C","D","E","F","G","H","I","J","K","L","M","N","O","P","Q","R","S","T","U","V","W","X","Y","Z">>
LowerChars == <<"a","b","c","d","e","f","g","h","i","j","k","l","m","n","o","p","q","r","s","t","u","v","w","x","y","z">>

\* str.lower(), character by character
LowerChar(c) ==
    IF \E i \in 1..Len(UpperChars) : UpperChars[i] = c
    THEN LowerChars[CHOOSE i \in 1..Len(UpperChars) : UpperChars[i] = c]
    ELSE c

Lower(s) == [i \in 1..Len(s) |-> LowerChar(s[i])]

\* k in s: k is a substring of s
Contains(k, s) ==
    \E i \in 1..(Len(s) - Len(k) + 1) : SubSeq(s, i, i + Len(k) - 1) = k

(***************************************************************************)
(* src/daily_refresh.py: parse_marinetraffic_rss                           *)
(***************************************************************************)
\* "https://www.marinetraffic.com/ais/index/rss?port=SHANGHAI"
URL_SHANGHAI == <<"h","t","t","p","s",":","/","/","w","w","w",".","m","a","r","i","n","e","t","r","a","f","f","i","c",".","c","o","m","/","a","i","s","/","i","n","d","e","x","/","r","s","s","?","p","o","r","t","=","S","H","A","N","G","H","A","I">>
\* "https://www.marinetraffic.com/ais/index/rss?port=LOSANGELES"
URL_LOSANGELES == <<"h","t","t","p","s",":","/","/","w","w","w",".","m","a","r","i","n","e","t","r","a","f","f","i","c",".","c","o","m","/","a","i","s","/","i","n","d","e","x","/","r","s","s","?","p","o","r","t","=","L","O","S","A","N","G","E","L","E","S">>

\* lines 101-105
feeds == <<URL_SHANGHAI, URL_LOSANGELES>>

\* line 111: feed.entries[:20]
LastN == 20

KW_CONGESTION == <<"c","o","n","g","e","s","t","i","o","n">>

\* line 116, in the order of the list
Keywords ==
    << KW_CONGESTION,
       <<"d","e","l","a","y">>,
       <<"w","a","i","t","i","n","g">>,
       <<"a","n","c","h","o","r","a","g","e">>,
       <<"q","u","e","u","e">>,
       <<"s","t","r","i","k","e">>,
       <<"p","r","o","t","e","s","t">>,
       <<"b","l","o","c","k","a","d","e">> >>

\* line 116: any(k in title or k in summary for k in [...])
KeywordHit(title, summary) ==
    \E j \in 1..Len(Keywords) :
        Contains(Keywords[j], title) \/ Contains(Keywords[j], summary)

\* lines 117-121: "shanghai" / "los angeles" looked up in url.lower()
PortNameOf(url) ==
    IF Contains(<<"s","h","a","n","g","h","a","i">>, Lower(url)) THEN "Shanghai"
    ELSE IF Contains(<<"l","o","s"," ","a","n","g","e","l","e","s">>, Lower(url)) THEN "Los Angeles"
    ELSE "Unknown"

\* entry.get("summary") or ""
SummaryOf(entry) == Get(entry, "summary", << >>)

\* lines 124-133; event_date is the time of the call
Signal(url, entry) ==
    LET title == Lower(entry.title)
    IN  [source       |-> "MarineTraffic",
         port_name    |-> PortNameOf(url),
         country      |-> "Unknown",
         event_type   |-> IF Contains(KW_CONGESTION, title) THEN "Congestion" ELSE "Disruption",
         description  |-> entry.title \o <<" ","-"," ">> \o SummaryOf(entry),
         event_date   |-> "now",
         impact_score |-> IF Contains(KW_CONGESTION, title) THEN 2500 ELSE 1500,
         raw_data     |-> entry.link]

\* lines 111-133, the loop over the entries of one feed from entry k on: the
\* signals appended, and whether an entry raised (entry.title and entry.link
\* raise AttributeError on an entry without that field), which ends the loop.
RECURSIVE ScanEntries(_, _, _, _)
ScanEntries(url, entries, k, acc) ==
    IF k > Len(entries) THEN [appended |-> acc, failed |-> FALSE]
    ELSE LET entry == entries[k]
         IN  IF "title" \notin DOMAIN entry
             THEN [appended |-> acc, failed |-> TRUE]
             ELSE IF ~KeywordHit(Lower(entry.title), Lower(SummaryOf(entry)))
             THEN ScanEntries(url, entries, k + 1, acc)
             ELSE IF "link" \notin DOMAIN entry
             THEN [appended |-> acc, failed |-> TRUE]
             ELSE ScanEntries(url, entries, k + 1, Append(acc, Signal(url, entry)))

\* feed.entries[:20]
FirstN(entries) == SubSeq(entries, 1, IF Len(entries) < LastN THEN Len(entries) ELSE LastN)

\* lines 109-136, one pass of the loop body for a feed: parse_rss either
\* raises or gives the feed
ScanFeed(url, feed) ==
    IF ~feed.ok THEN [appended |-> << >>, failed |-> TRUE]
    ELSE ScanEntries(url, FirstN(feed.entries), 1, << >>)

\* line 108 with the try around the whole loop: a failure ends the loop
NextFeedAbortOnFailure(i, failed) == IF failed THEN Len(feeds) + 1 ELSE i + 1

\* line 108: where the for loop goes after a feed, whether or not it failed
NextFeed(i, failed) == i + 1

(***************************************************************************)
(* Feed inputs                                                             *)
(***************************************************************************)
MaxEntries == 1

\* title "Port CONGESTION at berth 4", summary "Queue of 12 vessels"
E_congestion ==
    [title   |-> <<"P","o","r","t"," ","C","O","N","G","E","S","T","I","O","N"," ","a","t"," ","b","e","r","t","h"," ","4">>,
     summary |-> <<"Q","u","e","u","e"," ","o","f"," ","1","2"," ","v","e","s","s","e","l","s">>,
     link    |-> <<"h","t","t","p",":","/","/","m","t","/","1">>]
\* title "Pilot strike announced", no summary
E_strike ==
    [title   |-> <<"P","i","l","o","t"," ","s","t","r","i","k","e"," ","a","n","n","o","u","n","c","e","d">>,
     link    |-> <<"h","t","t","p",":","/","/","m","t","/","2">>]
\* title "Vessel arrival notice", summary "On schedule": no keyword
E_plain ==
    [title   |-> <<"V","e","s","s","e","l"," ","a","r","r","i","v","a","l"," ","n","o","t","i","c","e">>,
     summary |-> <<"O","n"," ","s","c","h","e","d","u","l","e">>,
     link    |-> <<"h","t","t","p",":","/","/","m","t","/","3">>]
\* title "Weather update", summary "Ships DELAYED overnight"
E_summary ==
    [title   |-> <<"W","e","a","t","h","e","r"," ","u","p","d","a","t","e">>,
     summary |-> <<"S","h","i","p","s"," ","D","E","L","A","Y","E","D"," ","o","v","e","r","n","i","g","h","t">>,
     link    |-> <<"h","t","t","p",":","/","/","m","t","/","4">>]
\* an entry without a title
E_notitle ==
    [summary |-> <<"Q","u","e","u","e"," ","o","f"," ","1","2"," ","v","e","s","s","e","l","s">>,
     link    |-> <<"h","t","t","p",":","/","/","m","t","/","1">>]
\* title "Blockade at the gate", no link
E_nolink ==
    [title   |-> <<"B","l","o","c","k","a","d","e"," ","a","t"," ","t","h","e"," ","g","a","t","e">>]

Entries == {E_congestion, E_strike, E_plain, E_summary, E_notitle, E_nolink}

\* a feed of LastN + 1 entries whose first and last carry a keyword
LongFeed ==
    [ok |-> TRUE,
     entries |-> [i \in 1..(LastN + 1) |-> IF i \in {1, LastN + 1} THEN E_congestion ELSE E_plain]]

\* a feed whose second entry has no title, between two that carry a keyword
PartialFeed == [ok |-> TRUE, entries |-> <<E_strike, E_notitle, E_congestion>>]

\* what parse_rss may give for a feed: an exception, or a feed
FeedPayloads ==
    {[ok |-> FALSE, entries |-> << >>]}
    \cup {[ok |-> TRUE, entries |-> es] : es \in SeqsUpTo(Entries, MaxEntries)}
    \cup {LongFeed, PartialFeed}

(***************************************************************************)
(* src/daily_refresh.py: fetch_gdelt_yesterday                             *)
(***************************************************************************)
MaxRows == 2

\* Rows of the export as read_csv gives them.  event_root is tagged with its
\* Python type: a column that parsed as numbers holds ints, one that did not
\* holds strings, and 14 == '14' is false.
GdeltRows ==
    { [id |-> 1, event_root |-> <<"str", "14">>, goldstein |-> -65],
      [id |-> 2, event_root |-> <<"str", "18">>, goldstein |-> 20],
      [id |-> 3, event_root |-> <<"str", "01">>, goldstein |-> 30],
      [id |-> 4, event_root |-> <<"int", "14">>, goldstein |-> -100] }

\* what the download and read_csv may give: an exception, or the rows
GdeltExports ==
    {[ok |-> FALSE, rows |-> << >>]}
    \cup {[ok |-> TRUE, rows |-> rs] : rs \in SeqsUpTo(GdeltRows, MaxRows)}

\* line 87: df[df['event_root'].isin(['14', '18'])]
IsRelevant(row) == row.event_root \in {<<"str", "14">>, <<"str", "18">>}

\* lines 75-94: the records returned
FetchGdeltYesterday(export) ==
    IF export.ok THEN SelectSeq(export.rows, IsRelevant) ELSE << >>

(***************************************************************************)
(* src/daily_refresh.py: daily_refresh                                     *)
(***************************************************************************)
\* no request to forecast_disruption is in progress
IdleForecast ==
    /\ api_key = None
    /\ x_api_key = None
    /\ ports = << >>
    /\ fpc = "idle"
    /\ idx = 1
    /\ congestion = << >>
    /\ gdelt_signals = << >>
    /\ results = << >>
    /\ queried = << >>
    /\ status = "pending"
    /\ raised = ""

InitRefresh ==
    /\ IdleForecast
    /\ job_pc = "start"
    /\ gdelt_records = << >>
    /\ feed_idx = 1
    /\ fetched = << >>
    /\ emitted = << >>
    /\ signals = << >>
    /\ store = << >>
    /\ log = << >>
    /\ job_raised = ""

\* lines 142-143, 67
StartJob ==
    /\ job_pc = "start"
    /\ log' = Append(log, [level |-> "info", msg |-> "Table ready"])
    /\ job_pc' = "gdelt"
    /\ UNCHANGED <<gdelt_records, feed_idx, fetched, emitted, signals, store, job_raised>>

\* lines 146-147 and 70-94: a failed fetch is logged and gives no records
FetchGdelt ==
    /\ job_pc = "gdelt"
    /\ \E export \in GdeltExports :
        LET records == FetchGdeltYesterday(export)
        IN  /\ gdelt_records' = records
            /\ log' = Append(log, IF export.ok
                                  THEN [level |-> "info", msg |-> "GDELT loaded", n |-> Len(records)]
                                  ELSE [level |-> "error", msg |-> "GDELT fetch failed"])
            /\ job_pc' = IF records # << >> THEN "map" ELSE "rss"
    /\ UNCHANGED <<feed_idx, fetched, emitted, signals, store, job_raised>>

\* lines 149-160: the first record's dict calls json.dumps (line 159), and the
\* name json is bound nowhere in daily_refresh.py (lines 15-25), so the mapping
\* raises NameError; no try encloses it, and it leaves daily_refresh.  Lines
\* 161-162 are never reached.
MapGdelt ==
    /\ job_pc = "map"
    /\ job_pc' = "crashed"
    /\ job_raised' = "NameError"
    /\ UNCHANGED <<gdelt_records, feed_idx, fetched, emitted, signals, store, log>>

\* lines 108-136: one feed
ScanNextFeed ==
    /\ job_pc = "rss"
    /\ feed_idx <= Len(feeds)
    /\ \E feed \in FeedPayloads :
        LET r == ScanFeed(feeds[feed_idx], feed)
        IN  /\ fetched' = Append(fetched, feed)
            /\ emitted' = Append(emitted, r.appended)
            /\ signals' = signals \o r.appended
            /\ log' = Append(log, IF r.failed
                                  THEN [level |-> "error", msg |-> "MarineTraffic RSS failed", feed |-> feed_idx]
                                  ELSE [level |-> "info", msg |-> "MarineTraffic extracted", feed |-> feed_idx,
                                        n |-> Len(signals) + Len(r.appended)])
            /\ feed_idx' = NextFeed(feed_idx, r.failed)
    /\ UNCHANGED <<job_pc, gdelt_records, store, job_raised>>

\* lines 138, 165: parse_marinetraffic_rss returns signals
ReturnSignals ==
    /\ job_pc = "rss"
    /\ feed_idx > Len(feeds)
    /\ job_pc' = "insert"
    /\ UNCHANGED <<gdelt_records, feed_idx, fetched, emitted, signals, store, log, job_raised>>

\* lines 166-168: the insert either appends the rows or raises; no try
\* encloses it
InsertSignals ==
    /\ job_pc = "insert"
    /\ \/ /\ signals = << >>
          /\ job_pc' = "acled"
          /\ UNCHANGED <<store, log, job_raised>>
       \/ /\ signals # << >>
          /\ store' = store \o signals
          /\ log' = Append(log, [level |-> "info", msg |-> "Inserted MarineTraffic", n |-> Len(signals)])
          /\ job_pc' = "acled"
          /\ UNCHANGED job_raised
       \/ /\ signals # << >>
          /\ job_pc' = "crashed"
          /\ job_raised' = "StoreError"
          /\ UNCHANGED <<store, log>>
    /\ UNCHANGED <<gdelt_records, feed_idx, fetched, emitted, signals>>

\* lines 171-173
Finish ==
    /\ job_pc = "acled"
    /\ log' = log \o << [level |-> "info", msg |-> "ACLED ingestion stub"],
                        [level |-> "info", msg |-> "Daily refresh complete"] >>
    /\ job_pc' = "complete"
    /\ UNCHANGED <<gdelt_records, feed_idx, fetched, emitted, signals, store, job_raised>>

NextRefresh ==
    \/ StartJob /\ UNCHANGED fvars
    \/ FetchGdelt /\ UNCHANGED fvars
    \/ MapGdelt /\ UNCHANGED fvars
    \/ ScanNextFeed /\ UNCHANGED fvars
    \/ ReturnSignals /\ UNCHANGED fvars
    \/ InsertSignals /\ UNCHANGED fvars
    \/ Finish /\ UNCHANGED fvars

SpecRefresh == InitRefresh /\ [][NextRefresh]_vars

(***************************************************************************)
(* Properties of forecast_disruption (SpecForecast)                        *)
(***************************************************************************)
\* the handler has built the result of the port whose replies it still holds
LastBuilt == fpc \in {"loop", "done"} /\ Len(results) >= 1
LastResult == results[Len(results)]

\* the source calls made for the i-th port, in the order they were made
QueriesOf(i) == SelectSeq(queried, LAMBDA q : q.pos = i)

RECURSIVE SumImpact(_)
SumImpact(sigs) ==
    IF sigs = << >> THEN 0 ELSE sigs[1].impact + SumImpact(Tail(sigs))

\* C1: every authorized request ends with a response, not an error, whose
\* forecasts list holds one Forecast Result per requested port, the i-th for
\* the i-th port.
C1_AuthorizedRequestIsAnswered ==
    (fpc = "done" /\ x_api_key # None /\ x_api_key = api_key) =>
        /\ status = "200"
        /\ raised = ""
        /\ Len(results) = Len(ports)
        /\ \A i \in 1..Len(ports) : results[i].port = ports[i]

\* C2: a request whose credential is missing, or differs from the configured
\* key, is rejected with an authorization failure before any source is
\* queried and before any result is built, whatever the configured key,
\* unset included.
C2_MissingOrWrongKeyIsRejected ==
    (x_api_key = None \/ x_api_key # api_key) =>
        /\ fpc \in {"start", "done"}
        /\ fpc = "done" => status = "401"
        /\ queried = << >>
        /\ results = << >>

\* C4: in every Forecast Result risk_level agrees with the returned
\* disruption_risk_score (tenths): High iff above 60, Medium iff above 30 and
\* at most 60, Low iff at most 30.
C4_LevelAgreesWithReturnedScore ==
    \A i \in 1..Len(results) :
        LET r == results[i]
            s == r.disruption_risk_score
        IN  /\ r.risk_level = "High" <=> s > 600
            /\ r.risk_level = "Medium" <=> (300 < s /\ s <= 600)
            /\ r.risk_level = "Low" <=> s <= 300

\* C5: in every Forecast Result predicted_delay_days is present iff the
\* returned disruption_risk_score (tenths) is above 20, and then it is
\* floor(disruption_risk_score / 5).
C5_DelayAgreesWithReturnedScore ==
    \A i \in 1..Len(results) :
        LET r == results[i]
            s == r.disruption_risk_score
        IN  /\ r.predicted_delay_days # None <=> s > 200
            /\ r.predicted_delay_days # None => r.predicted_delay_days = Some(s \div 50)

\* C6: a port for which every queried source gave no risk (no "risk" key, or
\* risk 0) gets score 0.0, level Low, no delay, confidence 0.85 and an empty
\* contributing_signals.
C6_NoSignalGivesEmptyLowResult ==
    (LastBuilt /\ Get(congestion, "risk", 0) = 0 /\ Get(gdelt_signals, "risk", 0) = 0) =>
        /\ LastResult.disruption_risk_score = 0
        /\ LastResult.risk_level = "Low"
        /\ LastResult.predicted_delay_days = None
        /\ LastResult.confidence = 85
        /\ LastResult.contributing_signals = << >>

\* C7: contributing_signals holds one tuple per source queried for the port,
\* in the order of the queries, and the impacts add up to the unrounded score.
C7_OneSignalPerSourceQueried ==
    LastBuilt =>
        LET sigs == LastResult.contributing_signals
            qs   == QueriesOf(Len(results))
        IN  /\ Len(sigs) = Len(qs)
            /\ \A k \in 1..Len(sigs) : k <= Len(qs) => sigs[k].source = qs[k].source
            /\ SumImpact(sigs) = Score(congestion, gdelt_signals)

HasLog(m) == \E k \in 1..Len(log) : log[k].msg = m

\* C3: a failure in one source's step (fetch, parse, mapping, insert) never
\* stops the run: it ends at "Daily refresh complete", with the ConflictFeed
\* stub logged and the PortTrafficFeed signals inserted, and nothing is
\* raised out of daily_refresh.
C3_SourceFailureNeverStopsTheRun ==
    /\ job_pc # "crashed"
    /\ job_raised = ""
    /\ job_pc = "complete" =>
        /\ HasLog("ACLED ingestion stub")
        /\ HasLog("Daily refresh complete")
        /\ store = signals

\* parse_marinetraffic_rss has returned
RssReturned ==
    \/ job_pc \in {"insert", "acled", "complete"}
    \/ job_pc = "crashed" /\ job_raised = "StoreError"

\* the entry raises when it is read: it has no title, or it carries a keyword
\* and has no link
EntryRaises(entry) ==
    \/ "title" \notin DOMAIN entry
    \/ /\ KeywordHit(Lower(entry.title), Lower(SummaryOf(entry)))
       /\ "link" \notin DOMAIN entry

\* the feed fails: the fetch raised, or one of its first 20 entries does
FeedFails(feed) ==
    \/ ~feed.ok
    \/ \E k \in 1..Len(feed.entries) : k <= 20 /\ EntryRaises(feed.entries[k])

\* the links of the entries among the first 20 that carry a keyword
MatchingLinks(feed) ==
    LET first == [k \in 1..(IF Len(feed.entries) < 20 THEN Len(feed.entries) ELSE 20) |-> feed.entries[k]]
        hits  == SelectSeq(first, LAMBDA e : KeywordHit(Lower(e.title), Lower(SummaryOf(e))))
    IN  [k \in 1..Len(hits) |-> hits[k].link]

RECURSIVE Flatten(_)
Flatten(ss) == IF ss = << >> THEN << >> ELSE ss[1] \o Flatten(Tail(ss))

\* C9: once parse_marinetraffic_rss has returned, every feed of the list has
\* been visited, whichever of them failed; each feed that did not fail has
\* emitted exactly its keyword-matching entries among the first 20, in order;
\* and the list returned is what the feeds emitted, in feed order.
C9_FeedFailureNeverAbortsTheLoop ==
    RssReturned =>
        /\ Len(fetched) = Len(feeds)
        /\ Len(emitted) = Len(feeds)
        /\ \A j \in 1..Len(fetched) :
              ~FeedFails(fetched[j]) =>
                  [k \in 1..Len(emitted[j]) |-> emitted[j][k].raw_data] = MatchingLinks(fetched[j])
        /\ signals = Flatten(emitted)

\* the first feed failed at its second entry, after emitting one signal, and
\* the second feed, of more than 20 entries, emitted its one matching entry
\* among the first 20
C9_Witness ==
    /\ RssReturned
    /\ fetched[1] = PartialFeed
    /\ fetched[2] = LongFeed
    /\ Len(emitted[1]) = 1
    /\ Len(emitted[2]) = 1
    /\ Len(signals) = 2

\* the port each configured feed is for
StaticPortOf(j) == IF j = 1 THEN "Shanghai" ELSE "Los Angeles"

\* C10: every signal carries the port of the feed it came from: Shanghai for
\* the Shanghai feed, Los Angeles for the Los Angeles feed.
C10_SignalCarriesPortOfItsFeed ==
    \A j \in 1..Len(emitted) :
        \A k \in 1..Len(emitted[j]) : emitted[j][k].port_name = StaticPortOf(j)

=============================================================================
